---- MODULE Spec2Model ----
(***************************************************************************)
(* auction-keeper: the block-driven scan loop and the per-auction decision *)
(* engine of AuctionKeeper (src/auction_keeper/main.py).                   *)
(*                                                                         *)
(* Each thread is one run of the on_block callback check_all_auctions;     *)
(* two of them stand for the callbacks of overlapping block events.  The   *)
(* Flopper contract, the other bidders and the pricing model are the       *)
(* environment.  Wad and Ray amounts are fixed-point integers.             *)
(***************************************************************************)
EXTENDS Integers, Sequences, FiniteSets, TLC

\* ------------------------------------------------------------------ bounds
\* The most auctions a scan finds, and the last chain time.
MaxKicks == 2
MaxEra == 3

\* --------------------------------------------------------- fixed-point math
\* Wad (amounts, prices) and Ray (beg) are integers of WAD and RAY units per
\* 1.0 (10^18 and 10^27 in pymaker, two and three decimals here); their
\* division and product round down.
WAD == 100
RAY == 1000

WadDiv(a, b) == (a * WAD) \div b
WadMulRay(a, r) == (a * r) \div RAY

\* ------------------------------------------------------------------ values
Threads == {"t1", "t2"}
Ids == 1..MaxKicks
None == "none"
Us == "our_address"
Other == "other"
Nobody == "0x0"
\* The gas price strategies: DefaultGasPrice() of line 113 and
\* UpdatableGasPrice(gas_price) of line 128.
DefaultGasPrice == [strategy |-> "default", gas_price |-> 0]
UpdatableGasPrice(gas_price) == [strategy |-> "updatable", gas_price |-> gas_price]

\* The auction contract's parameters: the minimal bid increase and the
\* lifetimes of a bid and of an auction.
Beg == 1050
Ttl == 1
Tau == 2

\* What kick() creates: 100.00 to cover for a lot of 10.00.
KickBid == 10000
KickLot == 1000
\* The lots other bidders offer, and what the pricing model may answer.
OtherLots == {900}
\* The lot of the keeper's bid at a price of 10.50.
OurLot == 952
ModelOutputs == {[price |-> 1050, gas_price |-> 1], [price |-> 1200, gas_price |-> 2]}
NoBid == [bid |-> 0, lot |-> 0, guy |-> Nobody, tic |-> 0, end |-> 0]
\* Python's None, for a ModelInput and for a ModelOutput.
NoInput == [bid |-> 0, lot |-> 0, guy |-> None, tic |-> 0, end |-> 0]
NoOutput == [price |-> 0, gas_price |-> 0]

VARIABLES
    lifecycle,    \* Lifecycle: before, after or ended by the on_startup callback
    approvals,    \* the calls of self.approve()
    era,          \* chain time, flopper.era()
    kicks,        \* flopper.kicks(): the number of auctions started
    bids,         \* flopper.bids(id): the on-chain state of each auction
    auctions,     \* self.auctions: the ids that have an Auction
    lock,         \* auction.lock of each id: the thread that holds it
    model_input,  \* what feed_model last sent to the model of each id
    model_output, \* what the model of each id last answered
    pc,           \* where each callback is
    count,        \* the kicks() the scan read
    auction_id,   \* the loop variable of check_all_auctions
    input,        \* check_auction's locals
    eras,         \* the chain times line 106 read
    auction_finished,
    auction_price_min_increment,
    output,
    sent,         \* the transactions this check_auction has sent
    mined,        \* whether the last of them changed the chain
    last          \* per id, what the last completed check_auction did

vars == <<lifecycle, approvals, era, kicks, bids, auctions, lock, model_input, model_output, pc,
          count, auction_id, input, eras, auction_finished,
          auction_price_min_increment, output, sent, mined, last>>

startup == <<lifecycle, approvals>>
chain == <<era, kicks, bids>>
locals == <<input, eras, auction_finished, auction_price_min_increment, output,
            sent, mined>>

\* ------------------------------------------------------------- the contract
\* Flopper.dent's requirements: the auction is running and the lot is lower
\* by at least beg.
DentAllowed(id, lot) ==
    /\ id <= kicks
    /\ bids[id].guy # Nobody
    /\ bids[id].tic > era \/ bids[id].tic = 0
    /\ bids[id].end > era
    /\ lot < bids[id].lot
    /\ WadMulRay(lot, Beg) <= bids[id].lot

\* Flopper.deal's requirement: the auction is over.
DealAllowed(id) ==
    /\ id <= kicks
    /\ bids[id].guy # Nobody
    /\ (bids[id].tic < era /\ bids[id].tic # 0) \/ bids[id].end < era

\* What Flopper.kick creates at chain time `now`.
Kicked(now) ==
    [bid |-> KickBid, lot |-> KickLot, guy |-> Other, tic |-> 0, end |-> now + Tau]

AfterDent(b, guy, lot) == [b EXCEPT !.guy = guy, !.lot = lot, !.tic = era + Ttl]

\* ------------------------------------------- Auctions and Auction (logic.py)
\* A registry that keeps the Auction of the last id asked for only.
GetAuction_LastOnly(id) == {id}

\* self.auctions.get_auction(id): the Auction of the id, created at the first
\* call and kept; there is one per id.
GetAuction(id) == auctions \cup {id}

\* auction.lock is free: an exclusive lock, one per Auction.
LockFree(id) == lock[id] = None

\* auction.feed_model(input): the snapshot is handed to the model; the
\* latest one replaces the one before.
FeedModel(id, inp) == [model_input EXCEPT ![id] = inp]

\* auction.model_output(): what the model last answered, None when it has
\* not; the call does not wait.
ModelOutput(id) == model_output[id]

\* ------------------------------------------------------------ check_auction
\* A bid that expires at `now` taken for expired.
BidExpired_Inclusive(inp, now) == inp.tic <= now /\ inp.tic # 0

\* Line 106, first operand of the `or`.
BidExpired(inp, now) == inp.tic < now /\ inp.tic # 0

\* Line 106, second operand of the `or`.
DeadlinePassed(inp, now) == inp.end < now

\* Line 109 with != for ==: a finished auction is dealt unless the keeper
\* holds it.
Branch_NotHolder(inp, finished) ==
    IF finished
    THEN IF inp.guy # Us THEN "deal" ELSE "unlock"
    ELSE IF inp.guy # Us THEN "beg" ELSE "unlock"

\* Line 109 left out: a finished auction is dealt whoever holds it.
Branch_AnyHolder(inp, finished) ==
    IF finished THEN "deal"
    ELSE IF inp.guy # Us THEN "beg" ELSE "unlock"

\* Line 116 left out: a running auction is bid on whoever holds it.
Branch_Outbid(inp, finished) ==
    IF finished
    THEN IF inp.guy = Us THEN "deal" ELSE "unlock"
    ELSE "beg"

\* Lines 108-116: where the finished flag and the holder lead.
Branch(inp, finished) ==
    IF finished
    THEN IF inp.guy = Us THEN "deal" ELSE "unlock"
    ELSE IF inp.guy # Us THEN "beg" ELSE "unlock"

\* Line 119-120.
MinIncrement(inp, beg) == WadMulRay(WadDiv(inp.bid, inp.lot), beg)

\* Line 125 with > for >=.
Competitive_Strict(our_price, min_increment) == our_price > min_increment

\* Line 125.
Competitive(our_price, min_increment) == our_price >= min_increment

\* Line 113 with the gas price of line 128.
DealTx_ModelGas(id) ==
    [kind |-> "deal", id |-> id, lot |-> 0, bid |-> 0,
     gas_price |-> UpdatableGasPrice(model_output[id].gas_price)]

\* Line 113: the deal transaction.
DealTx(id) ==
    [kind |-> "deal", id |-> id, lot |-> 0, bid |-> 0, gas_price |-> DefaultGasPrice]

\* Line 131 with its arguments swapped: dent(auction_id, input.bid, our_lot).
DentTx_Swapped(id, inp, out, latest) ==
    [kind |-> "dent", id |-> id, lot |-> inp.bid,
     bid |-> WadDiv(inp.bid, out.price),
     gas_price |-> UpdatableGasPrice(out.gas_price)]

\* Line 128 with a second auction.model_output(): the gas price of the
\* model's latest output.
DentTx_Repolled(id, inp, out, latest) ==
    [kind |-> "dent", id |-> id, lot |-> WadDiv(inp.bid, out.price),
     bid |-> inp.bid, gas_price |-> UpdatableGasPrice(latest.gas_price)]

\* Lines 124-131: the dent transaction, of the output `out` polled at line
\* 122 (`latest` is the model's output when line 131 runs).
DentTx(id, inp, out, latest) ==
    [kind |-> "dent", id |-> id, lot |-> WadDiv(inp.bid, out.price),
     bid |-> inp.bid, gas_price |-> UpdatableGasPrice(out.gas_price)]

\* What a completed check_auction leaves in `last`.
Summary(t) ==
    [key |-> <<input[t], eras[t], output[t]>>,
     done |-> pc[t] = "unlock",
     sent |-> sent[t],
     mined |-> mined[t],
     waiters |-> {u \in Threads \ {t} :
                     pc[u] = "lock" /\ auction_id[u] = auction_id[t]}]

\* No check_auction completed yet.
NoSummary ==
    [key |-> <<NoInput, <<>>, NoOutput>>, done |-> FALSE, sent |-> <<>>,
     mined |-> FALSE, waiters |-> {}]

ResetLocals(t) ==
    /\ input' = [input EXCEPT ![t] = NoInput]
    /\ eras' = [eras EXCEPT ![t] = <<>>]
    /\ auction_finished' = [auction_finished EXCEPT ![t] = FALSE]
    /\ auction_price_min_increment' = [auction_price_min_increment EXCEPT ![t] = 0]
    /\ output' = [output EXCEPT ![t] = NoOutput]
    /\ sent' = [sent EXCEPT ![t] = <<>>]
    /\ mined' = [mined EXCEPT ![t] = FALSE]

\* --------------------------------------------------------------------- Init
\* The state __init__ leaves.
Constructed ==
    /\ lifecycle = "startup"
    /\ approvals = 0
    /\ auctions = {}
    /\ lock = [i \in Ids |-> None]
    /\ model_input = [i \in Ids |-> NoInput]
    /\ model_output = [i \in Ids |-> NoOutput]
    /\ pc = [t \in Threads |-> "idle"]
    /\ count = [t \in Threads |-> 0]
    /\ auction_id = [t \in Threads |-> 0]
    /\ input = [t \in Threads |-> NoInput]
    /\ eras = [t \in Threads |-> <<>>]
    /\ auction_finished = [t \in Threads |-> FALSE]
    /\ auction_price_min_increment = [t \in Threads |-> 0]
    /\ output = [t \in Threads |-> NoOutput]
    /\ sent = [t \in Threads |-> <<>>]
    /\ mined = [t \in Threads |-> FALSE]
    /\ last = [i \in Ids |-> NoSummary]

\* An auction kicked at chain time 0 that the keeper's bid, made then by an
\* earlier run, leads.
Led == [Kicked(0) EXCEPT !.guy = Us, !.lot = OurLot, !.tic = 0 + Ttl]

\* The keeper starts at chain time 1 with `n` auctions started, each either
\* just kicked or led by the keeper, and is then in the state of line 72: no
\* Auction yet, no callback running.
Started(n) ==
    /\ era = 1
    /\ kicks = n
    /\ bids \in [Ids -> {Kicked(1), Led, NoBid}]
    /\ \A i \in Ids : bids[i] = NoBid <=> i > n
    /\ Constructed

\* Two overlapping callbacks and one auction at most.
Init == \E n \in 0..1 : Started(n)

\* One callback at a time and up to MaxKicks auctions.
InitScan == \E n \in 0..MaxKicks : Started(n)

\* One callback, one auction: any snapshot, chain time and model output.
Snapshots ==
    [bid : {KickBid}, lot : {KickLot} \cup OtherLots, guy : {Us, Other},
     tic : 0..MaxEra, end : 1..MaxEra]

InitEval ==
    /\ era \in 1..MaxEra
    /\ kicks = 1
    /\ bids \in [Ids -> Snapshots \cup {NoBid}]
    /\ \A i \in Ids : bids[i] = NoBid <=> i > 1
    /\ Constructed

\* ---------------------------------------------------------- the environment
\* A new block: chain time advances.
Tick ==
    /\ era < MaxEra
    /\ era' = era + 1
    /\ UNCHANGED <<startup, kicks, bids, auctions, lock, model_input, model_output, pc,
                   count, auction_id, locals, last>>

\* Another bidder's dent.
OtherDent(id) ==
    /\ \E lot \in OtherLots :
          /\ DentAllowed(id, lot)
          /\ bids[id].guy # Other
          /\ bids' = [bids EXCEPT ![id] = AfterDent(@, Other, lot)]
    /\ UNCHANGED <<startup, era, kicks, auctions, lock, model_input, model_output, pc,
                   count, auction_id, locals, last>>

\* The pricing model of an auction that was fed answers.
ModelAnswers(id) ==
    /\ model_input[id] # NoInput
    /\ \E out \in ModelOutputs :
          /\ out # model_output[id]
          /\ model_output' = [model_output EXCEPT ![id] = out]
    /\ UNCHANGED <<startup, era, kicks, bids, auctions, lock, model_input, pc,
                   count, auction_id, locals, last>>

\* ------------------------------------------------------- check_all_auctions

\* Lines 75-83: Lifecycle calls the on_startup callback, once, before it
\* watches for blocks: startup() calls approve().  flopper.approve either
\* returns or raises; nothing catches what it raises, which ends the with
\* statement of line 75 and with it main().
Startup ==
    /\ lifecycle = "startup"
    /\ approvals' = approvals + 1
    /\ \E approved \in BOOLEAN :
          lifecycle' = IF approved THEN "running" ELSE "terminated"
    /\ UNCHANGED <<chain, auctions, lock, model_input, model_output, pc,
                   count, auction_id, locals, last>>

\* The on_block callback called whether or not on_startup has returned.
MayStart_Unapproved(t) == pc[t] = "idle" /\ (t = "t2" => pc["t1"] # "idle")

\* Lifecycle calls the on_block callback when a block arrives, once
\* on_startup has returned.  The second thread is the callback of a block
\* that arrives while one is running.
MayStart(t) ==
    /\ lifecycle = "running"
    /\ pc[t] = "idle"
    /\ t = "t2" => pc["t1"] # "idle"

\* The loop of line 86: the next id, or the end of the scan.
LoopPc(id, n) == IF id <= n THEN "lock" ELSE "idle"

\* Lines 86-93: range(1, self.flopper.kicks()+1), and the Auction of the
\* first id.  (A kicks() that raises ends the callback where it began.)
OnBlock(t) ==
    /\ MayStart(t)
    /\ count' = [count EXCEPT ![t] = IF 1 <= kicks THEN kicks ELSE 0]
    /\ auction_id' = [auction_id EXCEPT ![t] = IF 1 <= kicks THEN 1 ELSE 0]
    /\ pc' = [pc EXCEPT ![t] = LoopPc(1, kicks)]
    /\ auctions' = IF 1 <= kicks THEN GetAuction(1) ELSE auctions
    /\ UNCHANGED <<startup, chain, lock, model_input, model_output, locals, last>>

\* Line 96 without the with statement's wait.
AcquireLock_NoWait(t) ==
    /\ pc[t] = "lock"
    /\ lock' = [lock EXCEPT ![auction_id[t]] = t]
    /\ pc' = [pc EXCEPT ![t] = "get_input"]
    /\ UNCHANGED <<startup, chain, auctions, model_input, model_output,
                   count, auction_id, locals, last>>

\* Line 96: with auction.lock, entered once no other thread holds the lock.
AcquireLock(t) ==
    /\ pc[t] = "lock"
    /\ LockFree(auction_id[t])
    /\ lock' = [lock EXCEPT ![auction_id[t]] = t]
    /\ pc' = [pc EXCEPT ![t] = "get_input"]
    /\ UNCHANGED <<startup, chain, auctions, model_input, model_output,
                   count, auction_id, locals, last>>

\* Line 98 answered from the snapshot the Auction was last fed.
GetInput_Cached(t) ==
    /\ pc[t] = "get_input"
    /\ input' = [input EXCEPT ![t] =
                    IF model_input[auction_id[t]] # NoInput
                    THEN model_input[auction_id[t]] ELSE bids[auction_id[t]]]
    /\ model_input' = FeedModel(auction_id[t], input'[t])
    /\ pc' = [pc EXCEPT ![t] = "era1"]
    /\ UNCHANGED <<startup, chain, auctions, lock, model_output,
                   count, auction_id, eras, auction_finished,
                   auction_price_min_increment, output, sent, mined, last>>

\* Lines 98-101: input = self.strategy.get_input(auction_id), fed to the model.
GetInput(t) ==
    /\ pc[t] = "get_input"
    /\ input' = [input EXCEPT ![t] = bids[auction_id[t]]]
    /\ model_input' = FeedModel(auction_id[t], bids[auction_id[t]])
    /\ pc' = [pc EXCEPT ![t] = "era1"]
    /\ UNCHANGED <<startup, chain, auctions, lock, model_output,
                   count, auction_id, eras, auction_finished,
                   auction_price_min_increment, output, sent, mined, last>>

\* Line 106, the first era(): input.tic < self.flopper.era() and input.tic != 0.
\* When it holds the `or` is decided and era() is not read again.
ReadEra1(t) ==
    /\ pc[t] = "era1"
    /\ eras' = [eras EXCEPT ![t] = <<era>>]
    /\ IF BidExpired(input[t], era)
       THEN /\ auction_finished' = [auction_finished EXCEPT ![t] = TRUE]
            /\ pc' = [pc EXCEPT ![t] = Branch(input[t], TRUE)]
       ELSE /\ pc' = [pc EXCEPT ![t] = "era2"]
            /\ UNCHANGED auction_finished
    /\ UNCHANGED <<startup, chain, auctions, lock, model_input, model_output,
                   count, auction_id, input, auction_price_min_increment,
                   output, sent, mined, last>>

\* Line 106, the second era(): input.end < self.flopper.era().
ReadEra2(t) ==
    /\ pc[t] = "era2"
    /\ eras' = [eras EXCEPT ![t] = Append(@, era)]
    /\ auction_finished' = [auction_finished EXCEPT ![t] = DeadlinePassed(input[t], era)]
    /\ pc' = [pc EXCEPT ![t] = Branch(input[t], DeadlinePassed(input[t], era))]
    /\ UNCHANGED <<startup, chain, auctions, lock, model_input, model_output,
                   count, auction_id, input, auction_price_min_increment,
                   output, sent, mined, last>>

\* Line 122 waiting until the model has an output.
PollModel_Waits(t) ==
    /\ pc[t] = "beg"
    /\ input[t].lot # 0
    /\ ModelOutput(auction_id[t]) # NoOutput
    /\ LET out == ModelOutput(auction_id[t])
           min == MinIncrement(input[t], Beg)
       IN /\ auction_price_min_increment' =
                [auction_price_min_increment EXCEPT ![t] = min]
          /\ output' = [output EXCEPT ![t] = out]
          /\ pc' = [pc EXCEPT ![t] =
                       IF Competitive(out.price, min) THEN "dent" ELSE "unlock"]
    /\ UNCHANGED <<startup, chain, auctions, lock, model_input, model_output,
                   count, auction_id, input, eras, auction_finished,
                   sent, mined, last>>

\* Lines 119-125: the least price that may bid, and the model's output,
\* polled once.
PollModel(t) ==
    /\ pc[t] = "beg"
    /\ input[t].lot # 0
    /\ LET out == ModelOutput(auction_id[t])
           min == MinIncrement(input[t], Beg)
       IN /\ auction_price_min_increment' =
                [auction_price_min_increment EXCEPT ![t] = min]
          /\ output' = [output EXCEPT ![t] = out]
          /\ pc' = [pc EXCEPT ![t] =
                       IF out # NoOutput /\ Competitive(out.price, min)
                       THEN "dent" ELSE "unlock"]
    /\ UNCHANGED <<startup, chain, auctions, lock, model_input, model_output,
                   count, auction_id, input, eras, auction_finished,
                   sent, mined, last>>

\* The transaction line 113 or line 131 sends.
Tx(t) ==
    IF pc[t] = "deal"
    THEN DealTx(auction_id[t])
    ELSE DentTx(auction_id[t], input[t], output[t], ModelOutput(auction_id[t]))

\* Lines 113 and 131: transact() returns a receipt, the transaction changed
\* the chain.
TxMined(t) ==
    /\ pc[t] \in {"deal", "dent"}
    /\ IF pc[t] = "deal"
       THEN /\ DealAllowed(auction_id[t])
            /\ bids' = [bids EXCEPT ![auction_id[t]] = NoBid]
       ELSE /\ DentAllowed(auction_id[t], Tx(t).lot)
            /\ bids' = [bids EXCEPT ![auction_id[t]] = AfterDent(@, Us, Tx(t).lot)]
    /\ sent' = [sent EXCEPT ![t] = Append(@, Tx(t))]
    /\ mined' = [mined EXCEPT ![t] = TRUE]
    /\ pc' = [pc EXCEPT ![t] = "unlock"]
    /\ UNCHANGED <<startup, era, kicks, auctions, lock, model_input, model_output,
                   count, auction_id, input, eras, auction_finished,
                   auction_price_min_increment, output, last>>

\* A failed transaction sent again at once: transact() in a retry loop.
TxFailed_Again(t) ==
    /\ pc[t] \in {"deal", "dent"}
    /\ sent' = [sent EXCEPT ![t] = Append(@, Tx(t))]
    /\ UNCHANGED <<startup, chain, auctions, lock, model_input, model_output,
                   pc, count, auction_id, input, eras, auction_finished,
                   auction_price_min_increment, output, mined, last>>

\* A failed transaction after which the Auction's model output is dropped.
TxFailed_DropsOutput(t) ==
    /\ pc[t] \in {"deal", "dent"}
    /\ sent' = [sent EXCEPT ![t] = Append(@, Tx(t))]
    /\ pc' = [pc EXCEPT ![t] = "unlock"]
    /\ model_output' = [model_output EXCEPT ![auction_id[t]] = NoOutput]
    /\ UNCHANGED <<startup, chain, auctions, lock, model_input,
                   count, auction_id, input, eras, auction_finished,
                   auction_price_min_increment, output, mined, last>>

\* Lines 113 and 131: transact() returns None, the transaction failed and
\* the chain is as it was.
TxFailed(t) ==
    /\ pc[t] \in {"deal", "dent"}
    /\ sent' = [sent EXCEPT ![t] = Append(@, Tx(t))]
    /\ pc' = [pc EXCEPT ![t] = "unlock"]
    /\ UNCHANGED <<startup, chain, auctions, lock, model_input, model_output,
                   count, auction_id, input, eras, auction_finished,
                   auction_price_min_increment, output, mined, last>>

\* Whether the contract accepts the transaction t is about to send.
Accepted(t) ==
    IF pc[t] = "deal"
    THEN DealAllowed(auction_id[t])
    ELSE DentAllowed(auction_id[t], Tx(t).lot)

\* Lines 113 and 131: transact() returns None because the contract rejects
\* the transaction.
TxReverted(t) ==
    /\ pc[t] \in {"deal", "dent"}
    /\ ~Accepted(t)
    /\ TxFailed(t)

\* Line 96: with auction.lock, left at the end of its body; check_auction
\* returns to the loop of line 86, which gets the Auction of the next id.
ReleaseLock(t) ==
    /\ pc[t] = "unlock"
    /\ lock' = [lock EXCEPT ![auction_id[t]] = None]
    /\ last' = [last EXCEPT ![auction_id[t]] = Summary(t)]
    /\ pc' = [pc EXCEPT ![t] = LoopPc(auction_id[t] + 1, count[t])]
    /\ IF auction_id[t] + 1 <= count[t]
       THEN /\ auction_id' = [auction_id EXCEPT ![t] = @ + 1]
            /\ auctions' = GetAuction(auction_id[t] + 1)
            /\ UNCHANGED count
       ELSE /\ auction_id' = [auction_id EXCEPT ![t] = 0]
            /\ count' = [count EXCEPT ![t] = 0]
            /\ UNCHANGED auctions
    /\ ResetLocals(t)
    /\ UNCHANGED <<startup, chain, model_input, model_output>>

\* The statements of check_auction that call the chain, each of which may
\* raise.
Raising == {"get_input", "era1", "era2", "deal", "beg", "dent"}

\* An exception that leaves check_auction with the lock still held: the
\* lock acquired and released by hand, with no try/finally.
Raise_KeepsLock(t) ==
    /\ pc[t] \in Raising
    /\ last' = [last EXCEPT ![auction_id[t]] = Summary(t)]
    /\ pc' = [pc EXCEPT ![t] = "idle"]
    /\ auction_id' = [auction_id EXCEPT ![t] = 0]
    /\ count' = [count EXCEPT ![t] = 0]
    /\ ResetLocals(t)
    /\ UNCHANGED <<startup, chain, auctions, lock, model_input, model_output>>

\* A chain call raises.  The with statement releases the lock on the way
\* out; nothing catches the exception in check_auction or in
\* check_all_auctions, so the callback ends there.
Raise(t) ==
    /\ pc[t] \in Raising
    /\ lock' = [lock EXCEPT ![auction_id[t]] = None]
    /\ last' = [last EXCEPT ![auction_id[t]] = Summary(t)]
    /\ pc' = [pc EXCEPT ![t] = "idle"]
    /\ auction_id' = [auction_id EXCEPT ![t] = 0]
    /\ count' = [count EXCEPT ![t] = 0]
    /\ ResetLocals(t)
    /\ UNCHANGED <<startup, chain, auctions, model_input, model_output>>

Step(t) ==
    \/ OnBlock(t)
    \/ AcquireLock(t)
    \/ GetInput(t)
    \/ ReadEra1(t)
    \/ ReadEra2(t)
    \/ PollModel(t)
    \/ TxMined(t)
    \/ TxFailed(t)
    \/ ReleaseLock(t)
    \/ Raise(t)

Next ==
    \/ Startup
    \/ Tick
    \/ \E id \in Ids : OtherDent(id)
    \/ \E id \in Ids : ModelAnswers(id)
    \/ \E t \in Threads : Step(t)

Spec == Init /\ [][Next]_vars

NextScan ==
    \/ Startup
    \/ Tick
    \/ Step("t1")

SpecScan == InitScan /\ [][NextScan]_vars

NextEval ==
    \/ Startup
    \/ Tick
    \/ ModelAnswers(1)
    \/ Step("t1")

SpecEval == InitEval /\ [][NextEval]_vars

\* The steps of a callback whose chain reads return and whose transactions
\* fail only when the contract rejects them.
LiveStep(t) ==
    \/ OnBlock(t)
    \/ AcquireLock(t)
    \/ GetInput(t)
    \/ ReadEra1(t)
    \/ ReadEra2(t)
    \/ PollModel(t)
    \/ TxMined(t)
    \/ TxReverted(t)
    \/ ReleaseLock(t)

NextLive ==
    \/ Startup
    \/ Tick
    \/ OtherDent(1)
    \/ ModelAnswers(1)
    \/ LiveStep("t1")

\* One callback at a time, one auction; every block calls the callback, and
\* a callback that can take a step takes it.  The model answers or does not.
SpecLive == Started(1) /\ [][NextLive]_vars /\ WF_vars(LiveStep("t1"))

\* ================================================================== claims
\* The part of check_auction inside the with statement.
InWith == {"get_input", "era1", "era2", "beg", "deal", "dent", "unlock"}

\* Whether the check_auction of thread t has read, fed, polled or sent.
Touched(t) ==
    \/ input[t] # NoInput
    \/ eras[t] # <<>>
    \/ output[t] # NoOutput
    \/ sent[t] # <<>>

\* C1: evaluations of one auction id are serialized by its lock: a thread
\* inside the with statement holds the lock of the id it evaluates, so no
\* two threads are inside it for the same id, and a thread has read the
\* snapshot, polled the model or sent a transaction only inside it.
C1_Serialized ==
    /\ \A t \in Threads :
          /\ pc[t] \in InWith => lock[auction_id[t]] = t
          /\ Touched(t) => pc[t] \in InWith /\ lock[auction_id[t]] = t
    /\ \A t, u \in Threads :
          t # u /\ pc[t] \in InWith /\ pc[u] \in InWith
             => auction_id[t] # auction_id[u]
    /\ \A i \in Ids : lock[i] # None =>
          pc[lock[i]] \in InWith /\ auction_id[lock[i]] = i

\* One callback is inside the with statement of auction 1, where it has
\* read the snapshot, and the callback of an overlapping block event waits
\* for the lock.
C1_Witness ==
    /\ pc["t1"] = "unlock" /\ auction_id["t1"] = 1 /\ sent["t1"] # <<>>
    /\ pc["t2"] = "lock" /\ auction_id["t2"] = 1

\* The check_auction of t has done all it does and t waited for the lock
\* while the check_auction before it, of the same id, ran.
SecondOfTwo(t) ==
    /\ pc[t] = "unlock"
    /\ t \in last[auction_id[t]].waiters

\* C2 (as claimed): of two overlapping evaluations of an id the second does
\* not send the settle or bid the first sent.
C2_NoDuplicate ==
    \A t \in Threads :
       SecondOfTwo(t) /\ last[auction_id[t]].sent # <<>>
          => sent[t] # last[auction_id[t]].sent

\* C2 (amended): when the transaction of the first evaluation changed the
\* chain, the second, which waited for the lock, reads a snapshot that
\* differs from the first's and does not send that transaction again; after
\* a settle it sends nothing.
C2_NoDuplicateOnceMined ==
    \A t \in Threads :
       SecondOfTwo(t) /\ last[auction_id[t]].mined
          => /\ input[t] # last[auction_id[t]].key[1]
             /\ sent[t] # last[auction_id[t]].sent
             /\ last[auction_id[t]].sent[1].kind = "deal" => sent[t] = <<>>

\* The second of two overlapping evaluations is over, after the first's
\* transaction changed the chain.
C2_Witness ==
    \E t \in Threads :
       /\ SecondOfTwo(t)
       /\ last[auction_id[t]].mined
       /\ last[auction_id[t]].sent[1].kind = "dent"
       /\ input[t].guy = Us

\* The dent transactions among what t has sent.
Dents(t) == {i \in 1..Len(sent[t]) : sent[t][i].kind = "dent"}
Deals(t) == {i \in 1..Len(sent[t]) : sent[t][i].kind = "deal"}

\* C3: no deal is sent when the holder of the snapshot is not the keeper.
C3_NoSettleUnlessHolder ==
    \A t \in Threads : Deals(t) # {} => input[t].guy = Us

\* An evaluation of a finished auction another bidder holds is over.
C3_Witness ==
    \E t \in Threads :
       /\ pc[t] = "unlock"
       /\ auction_finished[t]
       /\ input[t].guy = Other
       /\ sent[t] = <<>>

\* The least price line 125 accepts, from the snapshot: bid / lot * beg.
MinAcceptable(inp) == (((inp.bid * WAD) \div inp.lot) * Beg) \div RAY

\* C4: a dent is sent only at a model price of at least bid / lot * beg,
\* and at a price of exactly that much it is sent.
C4_BidAtLeastMin ==
    \A t \in Threads :
       /\ Dents(t) # {} => output[t].price >= MinAcceptable(input[t])
       /\ ( /\ pc[t] = "unlock"
            /\ ~auction_finished[t]
            /\ input[t].guy # Us
            /\ output[t] # NoOutput
            /\ output[t].price >= MinAcceptable(input[t]) )
          => Dents(t) # {}

\* A dent was sent at a model price equal to the least acceptable one.
C4_Witness ==
    \E t \in Threads :
       /\ Dents(t) # {}
       /\ output[t].price = MinAcceptable(input[t])

\* finished = (bidExpiry != 0 AND bidExpiry < era) OR (hardDeadline < era).
Finished(inp, now) == (inp.tic # 0 /\ inp.tic < now) \/ (inp.end < now)

\* Where the finished flag has been computed.
Decided == {"deal", "beg", "dent", "unlock"}

\* C5: the finished flag is Finished(snapshot, era) for a chain time era the
\* evaluation read; line 106 reads era() twice when the bid has not expired,
\* and both reads give the same time unless a block arrives in between.
C5_Finished ==
    \A t \in Threads :
       pc[t] \in Decided =>
          \E k \in 1..Len(eras[t]) :
             auction_finished[t] = Finished(input[t], eras[t][k])

\* An evaluation at the boundaries: the bid expires and the auction ends at
\* the chain time it read, and it is not finished.
C5_Witness ==
    \E t \in Threads :
       /\ pc[t] \in Decided
       /\ eras[t] = <<input[t].tic, input[t].end>>
       /\ ~auction_finished[t]

\* C6: an evaluation that finds the auction finished and held by the keeper
\* sends deal(id) once, at the default gas price, and nothing else.
C6_SettleOnce ==
    \A t \in Threads :
       pc[t] = "unlock" /\ auction_finished[t] /\ input[t].guy = Us
          => sent[t] = <<[kind |-> "deal", id |-> auction_id[t], lot |-> 0,
                          bid |-> 0,
                          gas_price |-> [strategy |-> "default", gas_price |-> 0]]>>

\* A deal was sent while the model had an output.
C6_Witness ==
    \E t \in Threads :
       /\ pc[t] = "unlock"
       /\ Deals(t) # {}
       /\ model_output[auction_id[t]] # NoOutput

\* C7: an evaluation sends nothing for a finished auction the keeper does
\* not hold and nothing for a running auction it leads; a dent is sent only
\* for a running auction another bidder holds.
C7_NoAction ==
    \A t \in Threads :
       /\ ( /\ pc[t] = "unlock"
            /\ \/ auction_finished[t] /\ input[t].guy # Us
               \/ ~auction_finished[t] /\ input[t].guy = Us )
          => sent[t] = <<>>
       /\ Dents(t) # {} => ~auction_finished[t] /\ input[t].guy # Us

\* An evaluation of a running auction the keeper leads is over, and the
\* model had an output.
C7_Witness ==
    \E t \in Threads :
       /\ pc[t] = "unlock"
       /\ ~auction_finished[t]
       /\ input[t].guy = Us
       /\ model_output[auction_id[t]] # NoOutput
       /\ sent[t] = <<>>

\* C8: the dent an evaluation sends is dent(id, bid / price, bid) of the
\* snapshot's bid and of the price of the output polled, at the gas price
\* of that same output.
C8_BidContents ==
    \A t \in Threads :
       Dents(t) # {} =>
          sent[t] = <<[kind |-> "dent", id |-> auction_id[t],
                       lot |-> (input[t].bid * WAD) \div output[t].price,
                       bid |-> input[t].bid,
                       gas_price |-> [strategy |-> "updatable",
                                     gas_price |-> output[t].gas_price]]>>

\* Scenario A: bid 100, lot 10, price 12: a lot of 8.33 for a bid of 100.
C8_Witness ==
    \E t \in Threads :
       /\ Dents(t) # {}
       /\ input[t].bid = 10000 /\ input[t].lot = 1000
       /\ output[t].price = 1200
       /\ sent[t][1].lot = 833 /\ sent[t][1].bid = 10000

\* What the evaluation of t read: the snapshot, the chain times and the
\* model's output (beg is the same at every read).
Key(t) == <<input[t], eras[t], output[t]>>

\* The check_auction of t has done all it does, and read what the completed
\* check_auction before it, of the same id, read.
SameAgain(t) ==
    /\ pc[t] = "unlock"
    /\ last[auction_id[t]].done
    /\ last[auction_id[t]].key = Key(t)

\* C9 (as claimed): evaluating the same unchanged snapshot twice gives the
\* same decision and the two evaluations do not send the same settle or bid
\* twice.
C9_Idempotent ==
    \A t \in Threads :
       SameAgain(t) => /\ sent[t] = last[auction_id[t]].sent
                       /\ ~(sent[t] # <<>> /\ sent[t] = last[auction_id[t]].sent)

\* C9 (amended): evaluating the same unchanged snapshot twice gives the same
\* decision: the second evaluation sends what the first sent, the same
\* settle or bid again when the decision is one.
C9_SameDecision ==
    \A t \in Threads : SameAgain(t) => sent[t] = last[auction_id[t]].sent

\* The same snapshot was evaluated twice and the same dent sent twice.
C9_Witness ==
    \E t \in Threads : SameAgain(t) /\ Dents(t) # {}

\* C10 (as claimed): a callback ends only once its loop has evaluated the
\* last id of the count it read.
C10_ScanNotAborted ==
    [][\A t \in Threads :
          pc[t] # "idle" /\ pc'[t] = "idle" => auction_id[t] = count[t]]_vars

\* The statements of check_auction that read the chain: get_input of line
\* 98, era() of line 106 and beg() of line 120.
ChainReads == {"get_input", "era1", "era2", "beg"}

\* The check_auction of t has fed its snapshot to the model of its auction.
FedByEvaluation(t) ==
    /\ input[t] # NoInput
    /\ model_input[auction_id[t]] = input[t]

\* C11 (as claimed): when a chain read of an evaluation fails, the
\* evaluation has fed no snapshot to the model and has sent no deal and no
\* dent.
C11_ReadFailureSkips ==
    [][\A t \in Threads :
          pc[t] \in ChainReads /\ pc'[t] = "idle"
             => ~FedByEvaluation(t) /\ sent[t] = <<>>]_vars

C14_ScanEvaluatesAll ==
    /\ [](\A t \in Threads :
             /\ pc[t] # "idle" =>
                   /\ auction_id[t] \in 1..count[t]
                   /\ auction_id[t] \in auctions
             /\ pc[t] = "idle" => auction_id[t] = 0 /\ count[t] = 0
             /\ Touched(t) => lock[auction_id[t]] = t)
    /\ [][\A t \in Threads :
             /\ pc[t] = "idle" /\ pc'[t] # "idle" =>
                   count'[t] = kicks /\ auction_id'[t] = 1
             /\ pc[t] # "idle" /\ pc'[t] # "idle" =>
                   /\ count'[t] = count[t]
                   /\ auction_id'[t] \in {auction_id[t], auction_id[t] + 1}
                   /\ auction_id'[t] # auction_id[t] => pc[t] = "unlock"
             /\ pc[t] # "idle" /\ pc'[t] = "idle" =>
                   auction_id[t] = count[t]]_vars

\* C15: an evaluation of a running auction another bidder holds does not
\* wait for the model: it leaves the poll of line 122 whether or not the
\* model has answered and the callback goes on to its end, releasing the
\* lock; with no output polled it sends nothing.
C15_NeverWaits ==
    /\ [](\A t \in Threads :
             ( /\ pc[t] = "unlock"
               /\ ~auction_finished[t]
               /\ input[t].guy # Us
               /\ output[t] = NoOutput ) => sent[t] = <<>>)
    /\ \A t \in Threads :
          (pc[t] = "beg") ~> (pc[t] = "idle" /\ \A i \in Ids : lock[i] # t)

\* The model has never answered, and the auction, evaluated before with no
\* output and nothing sent, has been evaluated again with the same result.
C15_Witness ==
    \E t \in Threads :
       /\ pc[t] = "unlock"
       /\ ~auction_finished[t]
       /\ input[t].guy = Other
       /\ model_output[auction_id[t]] = NoOutput
       /\ sent[t] = <<>>
       /\ last[auction_id[t]].done
       /\ last[auction_id[t]].key[1].guy = Other
       /\ last[auction_id[t]].key[3] = NoOutput
       /\ last[auction_id[t]].sent = <<>>

\* What the decision table of spec 4.4 calls for on what the evaluation of
\* t read.
Calls(t) ==
    IF auction_finished[t] /\ input[t].guy = Us THEN "deal"
    ELSE IF /\ ~auction_finished[t]
            /\ input[t].guy # Us
            /\ output[t] # NoOutput
            /\ output[t].price >= MinAcceptable(input[t]) THEN "dent"
    ELSE "none"

\* The check_auction of t has done all it does, and the one before it, of
\* the same id, sent a transaction that failed.
AfterFailure(t) ==
    /\ pc[t] = "unlock"
    /\ last[auction_id[t]].sent # <<>>
    /\ ~last[auction_id[t]].mined

\* C16: a submission that fails changes neither the chain nor the Auction
\* (its lock, what its model was fed and answered); the next evaluation,
\* when what it reads calls for the same decision, sends a deal or dent of
\* that kind again, the same transaction when snapshot and output are the
\* same.
C16_RetriedAfterFailure ==
    /\ [][\A t \in Threads :
             pc[t] \in {"deal", "dent"} /\ pc'[t] = "unlock" /\ ~mined'[t]
                => /\ bids' = bids
                   /\ auctions' = auctions
                   /\ lock' = lock
                   /\ model_input' = model_input
                   /\ model_output' = model_output]_vars
    /\ [](\A t \in Threads :
             AfterFailure(t) /\ Calls(t) = last[auction_id[t]].sent[1].kind
                => /\ Len(sent[t]) = 1
                   /\ sent[t][1].kind = Calls(t)
                   /\ ( /\ input[t] = last[auction_id[t]].key[1]
                        /\ output[t] = last[auction_id[t]].key[3] )
                      => sent[t] = last[auction_id[t]].sent)

\* A deal failed, and the deal of the next evaluation was mined.
C16_Witness ==
    \E t \in Threads :
       /\ AfterFailure(t)
       /\ last[auction_id[t]].sent[1].kind = "deal"
       /\ Deals(t) # {}
       /\ mined[t]

\* The chain shows auction i settled: deal deleted its bid.
Settled(i) == i <= kicks /\ bids[i] = NoBid

\* C17 (amended): a deal is mined once per auction at most, the chain then shows the
\* auction settled for good, and an evaluation that reads the settled
\* auction takes none of the branches that send: no evaluation of a settled
\* auction is about to send, and only the one that settled it has sent.
C17_NoActionOnceSettled ==
    /\ [](\A t \in Threads :
             /\ auction_id[t] # 0 /\ input[t] = NoBid
                   => sent[t] = <<>> /\ pc[t] \notin {"deal", "beg", "dent"}
             /\ auction_id[t] # 0 /\ Settled(auction_id[t])
                   => /\ pc[t] \notin {"deal", "dent"}
                      /\ sent[t] # <<>> =>
                            mined[t] /\ sent[t] = <<DealTx(auction_id[t])>>)
    /\ [][\A i \in Ids : Settled(i) => Settled(i)']_vars
    /\ [][\A t \in Threads :
             pc[t] = "deal" /\ mined'[t] => ~Settled(auction_id[t])]_vars

\* C17 (as claimed): one settlement is attempted per auction: an evaluation
\* that follows one which sent a deal sends no deal, and once a deal is
\* mined later evaluations send nothing.
C17_OneSettlementAttempted ==
    /\ C17_NoActionOnceSettled
    /\ [](\A t \in Threads :
             ( /\ pc[t] = "unlock"
               /\ last[auction_id[t]].sent # <<>>
               /\ last[auction_id[t]].sent[1].kind = "deal" )
                => Deals(t) = {})

\* The evaluation after the one whose deal was mined has read the settled
\* auction and sent nothing.
C17_Witness ==
    \E t \in Threads :
       /\ pc[t] = "unlock"
       /\ input[t] = NoBid
       /\ sent[t] = <<>>
       /\ last[auction_id[t]].mined
       /\ last[auction_id[t]].sent = <<DealTx(auction_id[t])>>

\* C18: check_auction releases the lock however it ends: a step that leaves
\* the with statement, by its end or by an exception, frees the lock, so a
\* held lock is held by an evaluation in progress and a callback waiting
\* for a lock that no evaluation in progress holds can acquire it.
C18_LockReleased ==
    /\ [][\A t \in Threads :
             pc[t] \in InWith /\ pc'[t] \notin InWith
                => lock'[auction_id[t]] = None]_vars
    /\ [](\A i \in Ids :
             lock[i] # None =>
                \E t \in Threads :
                   lock[i] = t /\ pc[t] \in InWith /\ auction_id[t] = i)
    /\ [](\A t \in Threads :
             ( /\ pc[t] = "lock"
               /\ \A u \in Threads \ {t} :
                     ~(pc[u] \in InWith /\ auction_id[u] = auction_id[t]) )
                => LockFree(auction_id[t]))

\* An evaluation ended by an exception after it had read the snapshot, and
\* a later evaluation of the same id holds the lock.
C18_Witness ==
    \E t \in Threads :
       /\ pc[t] \in InWith
       /\ lock[auction_id[t]] = t
       /\ ~last[auction_id[t]].done
       /\ last[auction_id[t]].key[1] # NoInput

\* C19: when every block calls the callback, chain reads return and
\* transactions fail only if the contract rejects them, an auction that is
\* finished with the keeper as its holder is eventually settled: every
\* evaluation that reads it so sends a deal.
C19_EventuallySettled ==
    /\ \A i \in Ids :
          ( /\ lifecycle = "running"
            /\ i <= kicks
            /\ bids[i].guy = Us
            /\ Finished(bids[i], era) ) ~> Settled(i)
    /\ [](\A t \in Threads :
             pc[t] = "unlock" /\ auction_finished[t] /\ input[t].guy = Us
                => Deals(t) # {})

\* A scan found the keeper leading a running auction and sent nothing; the
\* next one found the auction finished, and its deal was mined.
C19_Witness ==
    \E t \in Threads :
       /\ pc[t] = "unlock"
       /\ Deals(t) # {}
       /\ mined[t]
       /\ bids[auction_id[t]] = NoBid
       /\ last[auction_id[t]].done
       /\ last[auction_id[t]].key[1].guy = Us
       /\ last[auction_id[t]].sent = <<>>

\* C20: one evaluation sends one transaction at most, a deal or a dent, of
\* the id it evaluates: nothing is sent before the branch is taken, a deal
\* only on the deal branch and a dent only on the dent branch.
C20_AtMostOneAction ==
    \A t \in Threads :
       /\ Len(sent[t]) <= 1
       /\ \A k \in 1..Len(sent[t]) :
             /\ sent[t][k].id = auction_id[t]
             /\ sent[t][k].kind = IF auction_finished[t] THEN "deal" ELSE "dent"
       /\ sent[t] # <<>> => pc[t] = "unlock"

\* An evaluation is over whose one dent failed, and was not sent again.
C20_Witness ==
    \E t \in Threads :
       /\ pc[t] = "unlock"
       /\ Len(sent[t]) = 1
       /\ sent[t][1].kind = "dent"
       /\ sent[t][1].id = auction_id[t]
       /\ ~mined[t]

====
